---- MODULE Spec2Model ----
(***************************************************************************)
(* Model of the dual-endpoint snapshot store (DualSnapStore) of            *)
(* etcd-backup-restore: Save/Fetch failover with the primary circuit       *)
(* breaker, and the List/Delete fan-out, called concurrently by several    *)
(* callers on one store.                                                   *)
(*                                                                         *)
(* Error values are records [text, net]: text is the error message as a   *)
(* sequence of words (strings.Contains becomes a contiguous-subsequence    *)
(* test on words), net is the net.Error capability of the concrete type.   *)
(***************************************************************************)
EXTENDS Integers, Sequences, FiniteSets, TLC

\* ---------------------------------------------------------------- bounds
NumCallers == 2
Callers == 1..NumCallers

\* longest snapshot list an endpoint returns, highest revision of a snapshot
MaxLen == 2
MaxRev == 2

\* ------------------------------------------------------- program constants
\* isPrimaryDisabled: ds.primaryFailCount >= 3
FailThreshold == 3

\* ------------------------------------------------------------ error values
Nil == [text |-> <<>>, net |-> "none"]

MkErr(words) == [text |-> words, net |-> "none"]

\* strings.Contains(errStr, sig), on words
Contains(text, sig) ==
    \E i \in 1..(Len(text) - Len(sig) + 1) :
        SubSeq(text, i, i + Len(sig) - 1) = sig

\* errors the endpoints return in this model
ErrTimeout == MkErr(<<"connection", "timeout">>)
ErrDenied  == MkErr(<<"access", "denied">>)
EndpointErrs == {ErrTimeout, ErrDenied}
Outcomes == {Nil} \cup EndpointErrs

TransientSignatures ==
    { <<"no", "such", "host">>, <<"dial", "tcp:", "lookup">>,
      <<"request", "send", "failed">>, <<"connection", "refused">>,
      <<"connection", "timeout">>, <<"i/o", "timeout">> }

\* variant: of a net.Error only Timeout() is consulted
isTransientError_TimeoutOnly(err) ==
    IF err = Nil THEN FALSE
    ELSE IF \E sig \in TransientSignatures : Contains(err.text, sig) THEN TRUE
    ELSE IF err.net # "none" THEN err.net = "timeout"
    ELSE FALSE

\* DualSnapStore.isTransientError
isTransientError(err) ==
    IF err = Nil THEN FALSE
    ELSE IF \E sig \in TransientSignatures : Contains(err.text, sig) THEN TRUE
    ELSE IF err.net # "none" THEN err.net \in {"timeout", "temporary"}
    ELSE FALSE

\* ----------------------------------------------------- formatted errors
\* Save, content stream unreadable: "failed to read snapshot data: %v"
ReadErr == MkErr(<<"failed", "to", "read", "snapshot", "data:", "read", "error">>)

\* Save, primary skipped: the error put in primaryResult
SaveDisabledErr ==
    MkErr(<<"primary", "endpoint", "disabled", "due", "to", "repeated", "failures">>)

\* variant: Save formats its error the way Fetch does
SaveBothErr_LikeFetch(perr, serr) ==
    MkErr(<<"failed", "to", "save", "snapshot", "to", "both", "endpoints", "-", "Primary:">>
          \o <<"disabled", "due", "to", "failures">> \o <<"Secondary:">> \o serr.text)

\* Save: "failed to save snapshot %s to both endpoints - Primary: %v, Secondary: %v"
SaveBothErr(perr, serr) ==
    MkErr(<<"failed", "to", "save", "snapshot", "to", "both", "endpoints", "-", "Primary:">>
          \o perr.text \o <<"Secondary:">> \o serr.text)

\* Fetch: "failed to fetch snapshot %s from both endpoints - Primary: %v, Secondary: %v"
\* with fmt.Errorf("disabled due to failures") as the Primary argument
FetchBothErr(perr, serr) ==
    MkErr(<<"failed", "to", "fetch", "snapshot", "from", "both", "endpoints", "-", "Primary:">>
          \o <<"disabled", "due", "to", "failures">> \o <<"Secondary:">> \o serr.text)

\* List: the two both-failed errors
ListBothErr(perr, serr) ==
    IF isTransientError(perr) /\ isTransientError(serr)
    THEN MkErr(<<"both", "endpoints", "temporarily", "unavailable", "-", "Primary:">>
               \o perr.text \o <<"Secondary:">> \o serr.text)
    ELSE MkErr(<<"failed", "to", "list", "snapshots", "from", "both", "endpoints", "-", "Primary:">>
               \o perr.text \o <<"Secondary:">> \o serr.text)

\* Delete: "failed to delete snapshot %s from both endpoints - Primary: %v, Secondary: %v"
DeleteBothErr(perr, serr) ==
    MkErr(<<"failed", "to", "delete", "snapshot", "from", "both", "endpoints", "-", "Primary:">>
          \o perr.text \o <<"Secondary:">> \o serr.text)

\* ------------------------------------------------------------------ state
VARIABLES
    primaryFailed,     \* ds.primaryFailed
    primaryFailCount,  \* ds.primaryFailCount
    calls,             \* per caller: the Dual Store call it is executing
    consec,            \* history: length of the current run of Transient primary outcomes
    engaged,           \* history: a run of FailThreshold Transient primary outcomes occurred
    fan,               \* one List or Delete call followed task by task
    rw,                \* one call of a ResilientS3SnapStore operation
    rs,                \* one resolution of a snapstore from a configuration
    pipe,              \* one run of the chunk upload pipeline
    cl,                \* one classification of a pair of errors
    lk                 \* the breaker's lock and the calls that take it

vars == <<primaryFailed, primaryFailCount, calls, consec, engaged, fan, rw, rs, pipe, cl, lk>>

\* the state of the Dual Store's callers and breaker
dualVars == <<primaryFailed, primaryFailCount, calls, consec, engaged>>

\* the state outside the callers and the breaker
others == <<fan, rw, rs, pipe, cl, lk>>

\* the state outside a List or Delete call followed task by task
fanFrame == <<dualVars, rw, rs, pipe, cl, lk>>

\* the state outside a ResilientS3SnapStore call
rwFrame == <<dualVars, fan, rs, pipe, cl, lk>>

\* the state outside a resolution
rsFrame == <<dualVars, fan, rw, pipe, cl, lk>>

\* the state outside a run of the chunk upload pipeline
pipeFrame == <<dualVars, fan, rw, rs, cl, lk>>

\* the state outside a classification
clFrame == <<dualVars, fan, rw, rs, pipe, lk>>

\* the state outside the breaker and its lock
lkFrame == <<calls, consec, engaged, fan, rw, rs, pipe, cl>>

Ops == {"Save", "Fetch", "List", "Delete"}

\* A caller that is not inside a call.  Of a call in progress:
\*   pc      where the call is
\*   op      the operation called
\*   pInv    number of invocations of the primary's operation by this call
\*   sInv    number of invocations of the secondary's operation by this call
\*   perr    the primary error the call holds (primaryResult.Error / err)
\*   ret     the error the call returns (Nil: success)
\*   pWould  what the primary returns for this request, "?" while not yet known
\*   sWould  what the secondary returns for this request, "?" while not yet known
Unknown == [text |-> <<"?">>, net |-> "none"]

IdleCall ==
    [pc |-> "idle", op |-> "none", pWould |-> Unknown, sWould |-> Unknown,
     pInv |-> 0, sInv |-> 0, perr |-> Nil, ret |-> Nil]

\* No List or Delete call is being followed task by task
FanIdle == [op |-> "none"]

\* No ResilientS3SnapStore call, no resolution
RwIdle == [op |-> "none"]
RsIdle == [entry |-> "none"]

\* No pipeline run, no classification, no call on the breaker's lock
PipeIdle == [coord |-> "none"]
ClIdle == [pc |-> "none"]
LkIdle == [on |-> FALSE]
RestIdle == pipe = PipeIdle /\ cl = ClIdle /\ lk = LkIdle

\* NewDualSnapStore: zero-valued breaker fields
DualInit ==
    /\ primaryFailed = FALSE
    /\ primaryFailCount = 0
    /\ calls = [c \in Callers |-> IdleCall]
    /\ consec = 0
    /\ engaged = FALSE

Init ==
    /\ DualInit
    /\ fan = FanIdle
    /\ rw = RwIdle
    /\ rs = RsIdle
    /\ RestIdle

\* ---------------------------------------------------------- circuit breaker
\* the breaker as a pair <<primaryFailed, primaryFailCount>>
\* variant: the threshold compared with > instead of >=
isPrimaryDisabledIn_OffByOne(failed, count) == failed /\ count > FailThreshold

isPrimaryDisabledIn(failed, count) == failed /\ count >= FailThreshold

isPrimaryDisabled == isPrimaryDisabledIn(primaryFailed, primaryFailCount)

\* variant: the reset clears the flag and forgets the counter
resetPrimaryFailureState_KeepCount(failed, count) == <<FALSE, count>>

resetPrimaryFailureState(failed, count) == <<FALSE, 0>>

\* variant: every failure is counted, whatever its class
recordPrimaryFailure_CountAll(failed, count, err) == <<TRUE, count + 1>>

recordPrimaryFailure(failed, count, err) ==
    IF isTransientError(err) THEN <<TRUE, count + 1>> ELSE <<failed, 0>>

\* class of a primary outcome, for the history
ClassOf(err) ==
    IF err = Nil THEN "ok" ELSE IF isTransientError(err) THEN "T" ELSE "F"

\* ------------------------------------------------------------ Save / Fetch
NewCall(op) == [IdleCall EXCEPT !.op = op]

\* variant: the breaker is not consulted
AfterDisableCheck_NoCheck(call, disabled) == [call EXCEPT !.pc = "primary"]

\* Save/Fetch: the branch on ds.isPrimaryDisabled()
AfterDisableCheck(call, disabled) ==
    IF ~disabled
    THEN [call EXCEPT !.pc = "primary"]
    ELSE [call EXCEPT !.pc = "secondary",
                      !.perr = IF call.op = "Save" THEN SaveDisabledErr ELSE Nil]

\* variant: after a primary success the call goes on to the secondary
AfterPrimary_WriteBoth(call, err) ==
    IF err = Nil
    THEN [call EXCEPT !.pc = "secondary", !.pInv = @ + 1]
    ELSE [call EXCEPT !.pc = "secondary", !.pInv = @ + 1, !.perr = err]

\* variant: only a Transient primary failure fails over, a Fatal one is returned
AfterPrimary_FatalReturns(call, err) ==
    IF err = Nil
    THEN [call EXCEPT !.pc = "done", !.pInv = @ + 1, !.ret = Nil]
    ELSE IF isTransientError(err)
    THEN [call EXCEPT !.pc = "secondary", !.pInv = @ + 1, !.perr = err]
    ELSE [call EXCEPT !.pc = "done", !.pInv = @ + 1, !.perr = err, !.ret = err]

\* Save/Fetch: what the call does with the result err of the primary operation
AfterPrimary(call, err) ==
    IF err = Nil
    THEN [call EXCEPT !.pc = "done", !.pInv = @ + 1, !.ret = Nil]
    ELSE [call EXCEPT !.pc = "secondary", !.pInv = @ + 1, !.perr = err]

\* Save/Fetch: what the breaker becomes with the result err of the primary operation
BreakerAfterPrimary(failed, count, err) ==
    IF err = Nil
    THEN resetPrimaryFailureState(failed, count)
    ELSE recordPrimaryFailure(failed, count, err)

\* Save/Fetch: what the call does with the result err of the secondary operation
AfterSecondary(call, err) ==
    IF err = Nil
    THEN [call EXCEPT !.pc = "done", !.sInv = @ + 1, !.ret = Nil]
    ELSE [call EXCEPT !.pc = "done", !.sInv = @ + 1,
                      !.ret = IF call.op = "Save"
                              THEN SaveBothErr(call.perr, err)
                              ELSE FetchBothErr(call.perr, err)]

\* The endpoint outcomes of a request that the call did not learn by itself
\* (an endpoint it skipped) are drawn when the call passes the point where it
\* would have learned them.
Known(call, pw, sw) ==
    [call EXCEPT !.pWould = IF @ = Unknown THEN pw ELSE @,
                 !.sWould = IF @ = Unknown THEN sw ELSE @]

\* A caller enters Save: reads the content stream, then checks the breaker.
BeginSave(c) ==
    /\ calls[c].pc = "idle"
    /\ \E readOk \in BOOLEAN, pw \in Outcomes :
         calls' = [calls EXCEPT ![c] =
                     IF ~readOk
                     THEN [NewCall("Save") EXCEPT !.pc = "done", !.ret = ReadErr]
                     ELSE LET n == AfterDisableCheck(NewCall("Save"), isPrimaryDisabled)
                          IN IF n.pc = "primary" THEN n ELSE [n EXCEPT !.pWould = pw]]
    /\ UNCHANGED <<primaryFailed, primaryFailCount, consec, engaged, others>>

\* A caller enters Fetch: checks the breaker.
BeginFetch(c) ==
    /\ calls[c].pc = "idle"
    /\ \E pw \in Outcomes :
         calls' = [calls EXCEPT ![c] =
                     LET n == AfterDisableCheck(NewCall("Fetch"), isPrimaryDisabled)
                     IN IF n.pc = "primary" THEN n ELSE [n EXCEPT !.pWould = pw]]
    /\ UNCHANGED <<primaryFailed, primaryFailCount, consec, engaged, others>>

\* The primary operation of a Save/Fetch returns err and the outcome is
\* recorded under the lock (resetPrimaryFailureState or recordPrimaryFailure);
\* on success the call returns.
PrimaryAttempt(c) ==
    /\ calls[c].pc = "primary"
    /\ \E err \in Outcomes, sw \in Outcomes :
         LET b == BreakerAfterPrimary(primaryFailed, primaryFailCount, err)
             n == AfterPrimary([calls[c] EXCEPT !.pWould = err], err)
         IN /\ calls' = [calls EXCEPT ![c] = IF n.pc = "done" THEN Known(n, err, sw) ELSE n]
            /\ primaryFailed' = b[1]
            /\ primaryFailCount' = b[2]
            /\ consec' = IF ClassOf(err) = "T" THEN consec + 1 ELSE 0
            /\ engaged' = (engaged \/ consec' >= FailThreshold)
    /\ UNCHANGED others

\* The secondary operation of a Save/Fetch returns err; the call returns.
SecondaryAttempt(c) ==
    /\ calls[c].pc = "secondary"
    /\ \E err \in Outcomes :
         calls' = [calls EXCEPT ![c] = AfterSecondary([calls[c] EXCEPT !.sWould = err], err)]
    /\ UNCHANGED <<primaryFailed, primaryFailCount, consec, engaged, others>>

\* ------------------------------------------------------------ List / Delete
\* List: the error returned after both listing tasks have been joined
ListResult(perr, serr) ==
    IF perr # Nil /\ serr # Nil THEN ListBothErr(perr, serr) ELSE Nil

\* Delete: the error returned after both deletion tasks have been joined
DeleteResult(perr, serr) ==
    IF perr = Nil /\ serr = Nil THEN Nil
    ELSE IF perr # Nil /\ serr # Nil THEN DeleteBothErr(perr, serr)
    ELSE Nil

\* A caller enters List or Delete and starts the two endpoint tasks.
BeginList(c) ==
    /\ calls[c].pc = "idle"
    /\ calls' = [calls EXCEPT ![c] = [NewCall("List") EXCEPT !.pc = "fanout"]]
    /\ UNCHANGED <<primaryFailed, primaryFailCount, consec, engaged, others>>

BeginDelete(c) ==
    /\ calls[c].pc = "idle"
    /\ calls' = [calls EXCEPT ![c] = [NewCall("Delete") EXCEPT !.pc = "fanout"]]
    /\ UNCHANGED <<primaryFailed, primaryFailCount, consec, engaged, others>>

\* variant: List feeds the primary's result to the breaker as Save and Fetch do
ListJoin_Records(c) ==
    /\ calls[c].pc = "fanout"
    /\ calls[c].op = "List"
    /\ \E pw \in Outcomes, sw \in Outcomes, pSel \in BOOLEAN, sSel \in BOOLEAN :
         LET perr == IF pSel THEN pw ELSE Nil
             serr == IF sSel THEN sw ELSE Nil
             b == BreakerAfterPrimary(primaryFailed, primaryFailCount, pw)
         IN /\ calls' = [calls EXCEPT ![c] =
                        [@ EXCEPT !.pc = "done", !.pInv = @ + 1, !.sInv = @ + 1,
                                  !.pWould = pw, !.sWould = sw,
                                  !.ret = ListResult(perr, serr)]]
            /\ primaryFailed' = b[1]
            /\ primaryFailCount' = b[2]
            /\ consec' = IF ClassOf(pw) = "T" THEN consec + 1 ELSE 0
            /\ engaged' = (engaged \/ consec' >= FailThreshold)
    /\ UNCHANGED others

\* wg.Wait() returns: both endpoint tasks have run, the primary's with result
\* pw and the secondary's with result sw; the call returns.  List collects each
\* endpoint's result with a select over two closed channels, which takes the
\* channel that holds the result (pSel, sSel) or the empty one (a nil value).
ListJoin(c) ==
    /\ calls[c].pc = "fanout"
    /\ calls[c].op = "List"
    /\ \E pw \in Outcomes, sw \in Outcomes, pSel \in BOOLEAN, sSel \in BOOLEAN :
         LET perr == IF pSel THEN pw ELSE Nil
             serr == IF sSel THEN sw ELSE Nil
         IN calls' = [calls EXCEPT ![c] =
                     [@ EXCEPT !.pc = "done", !.pInv = @ + 1, !.sInv = @ + 1,
                               !.pWould = pw, !.sWould = sw,
                               !.ret = ListResult(perr, serr)]]
    /\ UNCHANGED <<primaryFailed, primaryFailCount, consec, engaged, others>>

DeleteJoin(c) ==
    /\ calls[c].pc = "fanout"
    /\ calls[c].op = "Delete"
    /\ \E pw \in Outcomes, sw \in Outcomes :
         calls' = [calls EXCEPT ![c] =
                     [@ EXCEPT !.pc = "done", !.pInv = @ + 1, !.sInv = @ + 1,
                               !.pWould = pw, !.sWould = sw, !.perr = pw,
                               !.ret = DeleteResult(pw, sw)]]
    /\ UNCHANGED <<primaryFailed, primaryFailCount, consec, engaged, others>>

\* The caller has its result and may call again.
Return(c) ==
    /\ calls[c].pc = "done"
    /\ calls' = [calls EXCEPT ![c] = IdleCall]
    /\ UNCHANGED <<primaryFailed, primaryFailCount, consec, engaged, others>>

Next ==
    \E c \in Callers :
        \/ BeginSave(c)
        \/ BeginFetch(c)
        \/ PrimaryAttempt(c)
        \/ SecondaryAttempt(c)
        \/ BeginList(c)
        \/ BeginDelete(c)
        \/ ListJoin(c)
        \/ DeleteJoin(c)
        \/ Return(c)

Spec == Init /\ [][Next]_vars

TypeOK ==
    /\ primaryFailed \in BOOLEAN
    /\ primaryFailCount \in 0..(FailThreshold + NumCallers)
    /\ consec = primaryFailCount
    /\ \A c \in Callers : calls[c].pc \in {"idle", "primary", "secondary", "fanout", "done"}


\* ------------------------------------------------------------- snapshots
\* (SnapDir, SnapName) pairs, as sequences of characters; the last two differ
\* only in where the "-" falls
SnapPairs ==
    << [dir |-> <<"a">>,           name |-> <<"c">>],
       [dir |-> <<"a">>,           name |-> <<"b", "-", "c">>],
       [dir |-> <<"a", "-", "b">>, name |-> <<"c">>] >>

Snapshots ==
    { [dir |-> SnapPairs[i].dir, name |-> SnapPairs[i].name, rev |-> r] :
        i \in 1..Len(SnapPairs), r \in 1..MaxRev }

SnapLists == UNION { [1..n -> Snapshots] : n \in 0..MaxLen }

\* the (directory, name) pair of a snapshot
PairOf(snap) == [dir |-> snap.dir, name |-> snap.name]

\* the domain order of snapshots: by revision, then by (directory, name)
SnapRank(snap) ==
    snap.rev * Len(SnapPairs) + (CHOOSE i \in 1..Len(SnapPairs) : SnapPairs[i] = PairOf(snap))

SnapLess(a, b) == SnapRank(a) < SnapRank(b)

RECURSIVE InsertSnap(_, _)
InsertSnap(sorted, snap) ==
    IF sorted = <<>> THEN <<snap>>
    ELSE IF SnapLess(snap, Head(sorted)) THEN <<snap>> \o sorted
    ELSE <<Head(sorted)>> \o InsertSnap(Tail(sorted), snap)

\* sort.Sort(list)
RECURSIVE SortSnaps(_)
SortSnaps(list) ==
    IF list = <<>> THEN <<>> ELSE InsertSnap(SortSnaps(Tail(list)), Head(list))

IsSorted(list) ==
    \A i \in 1..(Len(list) - 1) : SnapLess(list[i], list[i + 1])

\* --------------------------------------------------------- mergeSnapshots
\* key := fmt.Sprintf("%s-%s", snap.SnapDir, snap.SnapName)
SnapKey(snap) == snap.dir \o <<"-">> \o snap.name

EmptyMap == [k \in {} |-> 0]

MapPut(m, k, v) == [x \in (DOMAIN m) \cup {k} |-> IF x = k THEN v ELSE m[x]]

\* for _, snap := range primarySnaps { snapMap[key] = snap }
RECURSIVE AddPrimary(_, _)
AddPrimary(m, snaps) ==
    IF snaps = <<>> THEN m
    ELSE AddPrimary(MapPut(m, SnapKey(Head(snaps)), Head(snaps)), Tail(snaps))

\* variant: a secondary snapshot replaces the one already in the map
RECURSIVE AddSecondary_Overwrite(_, _)
AddSecondary_Overwrite(m, snaps) ==
    IF snaps = <<>> THEN m
    ELSE AddSecondary_Overwrite(MapPut(m, SnapKey(Head(snaps)), Head(snaps)), Tail(snaps))

\* for _, snap := range secondarySnaps { if _, exists := snapMap[key]; !exists { snapMap[key] = snap } }
RECURSIVE AddSecondary(_, _)
AddSecondary(m, snaps) ==
    IF snaps = <<>> THEN m
    ELSE AddSecondary(
             IF SnapKey(Head(snaps)) \in DOMAIN m THEN m
             ELSE MapPut(m, SnapKey(Head(snaps)), Head(snaps)),
             Tail(snaps))

snapMapOf(primarySnaps, secondarySnaps) ==
    AddSecondary(AddPrimary(EmptyMap, primarySnaps), secondarySnaps)

\* the orders in which "for _, snap := range snapMap" can yield the keys of m
MapOrders(m) ==
    { o \in [1..Cardinality(DOMAIN m) -> DOMAIN m] :
        \A i, j \in 1..Cardinality(DOMAIN m) : i # j => o[i] # o[j] }

\* mergeSnapshots, with order the order in which the map yields its keys
mergeSnapshots(primarySnaps, secondarySnaps, order) ==
    LET m == snapMapOf(primarySnaps, secondarySnaps)
    IN SortSnaps([i \in 1..Len(order) |-> m[order[i]]])

\* ------------------------------------------------- List, task by task
\* fan while a List call is followed:
\*   pc            position of the caller: "spawn", "wait", "selectP", "selectS",
\*                 "merge", "done"
\*   tp, ts        position of the primary / secondary listing task
\*   pIn, pOut     what primary.List returns: list and error; sIn, sOut likewise
\*   pSnapsCh ...  the four channels of capacity 1
\*   primarySnaps, secondarySnaps, primaryErr, secondaryErr   the caller's locals
\*   pInv, sInv    number of invocations of primary.List / secondary.List
\*   res, ret      the list and the error List returns
ListStart(pIn, pOut, sIn, sOut) ==
    [op |-> "List", pc |-> "spawn", tp |-> "none", ts |-> "none",
     pIn |-> pIn, pOut |-> pOut, sIn |-> sIn, sOut |-> sOut,
     pSnapsCh |-> <<>>, pErrCh |-> <<>>, sSnapsCh |-> <<>>, sErrCh |-> <<>>,
     primarySnaps |-> <<>>, secondarySnaps |-> <<>>,
     primaryErr |-> Nil, secondaryErr |-> Nil,
     pInv |-> 0, sInv |-> 0, res |-> <<>>, ret |-> Nil]

\* A List call on a fresh Dual Store, for every pair of endpoint answers; an
\* endpoint that fails returns no list.
InitList ==
    /\ DualInit
    /\ rw = RwIdle
    /\ rs = RsIdle
    /\ RestIdle
    /\ \E pOut \in Outcomes, sOut \in Outcomes, pIn \in SnapLists, sIn \in SnapLists :
         /\ pOut # Nil => pIn = <<>>
         /\ sOut # Nil => sIn = <<>>
         /\ fan = ListStart(pIn, pOut, sIn, sOut)

\* the caller starts the two listing tasks and waits
ListSpawn ==
    /\ fan.op = "List" /\ fan.pc = "spawn"
    /\ fan' = [fan EXCEPT !.pc = "wait", !.tp = "run", !.ts = "run"]
    /\ UNCHANGED fanFrame

\* the primary listing task: primary.List, then one send, then wg.Done
ListPrimaryTask ==
    /\ fan.op = "List" /\ fan.tp = "run"
    /\ fan' = IF fan.pOut # Nil
              THEN [fan EXCEPT !.tp = "done", !.pInv = @ + 1, !.pErrCh = Append(@, fan.pOut)]
              ELSE [fan EXCEPT !.tp = "done", !.pInv = @ + 1, !.pSnapsCh = Append(@, fan.pIn)]
    /\ UNCHANGED fanFrame

\* the secondary listing task
ListSecondaryTask ==
    /\ fan.op = "List" /\ fan.ts = "run"
    /\ fan' = IF fan.sOut # Nil
              THEN [fan EXCEPT !.ts = "done", !.sInv = @ + 1, !.sErrCh = Append(@, fan.sOut)]
              ELSE [fan EXCEPT !.ts = "done", !.sInv = @ + 1, !.sSnapsCh = Append(@, fan.sIn)]
    /\ UNCHANGED fanFrame

\* wg.Wait() returns and the four channels are closed
ListWait ==
    /\ fan.op = "List" /\ fan.pc = "wait"
    /\ fan.tp = "done" /\ fan.ts = "done"
    /\ fan' = [fan EXCEPT !.pc = "selectP"]
    /\ UNCHANGED fanFrame

\* a receive from a closed channel: the buffered value, or the zero value
RecvList(ch) == IF ch = <<>> THEN <<>> ELSE Head(ch)
RecvErr(ch) == IF ch = <<>> THEN Nil ELSE Head(ch)

\* select { case <-snapsCh: case <-errCh: default: } after both channels were
\* closed: both receives can proceed, whatever the channels hold, and the
\* select takes either
SelectCases(snapsCh, errCh) == {"snaps", "err"}

\* the caller collects the primary's result
ListSelectPrimary ==
    /\ fan.op = "List" /\ fan.pc = "selectP"
    /\ \E case \in SelectCases(fan.pSnapsCh, fan.pErrCh) :
         fan' = IF case = "snaps"
                THEN [fan EXCEPT !.pc = "selectS", !.primarySnaps = RecvList(fan.pSnapsCh),
                                 !.pSnapsCh = IF @ = <<>> THEN @ ELSE Tail(@)]
                ELSE IF case = "err"
                THEN [fan EXCEPT !.pc = "selectS", !.primaryErr = RecvErr(fan.pErrCh),
                                 !.pErrCh = IF @ = <<>> THEN @ ELSE Tail(@)]
                ELSE [fan EXCEPT !.pc = "selectS"]
    /\ UNCHANGED fanFrame

\* the caller collects the secondary's result
ListSelectSecondary ==
    /\ fan.op = "List" /\ fan.pc = "selectS"
    /\ \E case \in SelectCases(fan.sSnapsCh, fan.sErrCh) :
         fan' = IF case = "snaps"
                THEN [fan EXCEPT !.pc = "merge", !.secondarySnaps = RecvList(fan.sSnapsCh),
                                 !.sSnapsCh = IF @ = <<>> THEN @ ELSE Tail(@)]
                ELSE IF case = "err"
                THEN [fan EXCEPT !.pc = "merge", !.secondaryErr = RecvErr(fan.sErrCh),
                                 !.sErrCh = IF @ = <<>> THEN @ ELSE Tail(@)]
                ELSE [fan EXCEPT !.pc = "merge"]
    /\ UNCHANGED fanFrame

\* the caller returns the both-failed error or the merged list
ListFinish ==
    /\ fan.op = "List" /\ fan.pc = "merge"
    /\ \E order \in MapOrders(snapMapOf(fan.primarySnaps, fan.secondarySnaps)) :
         fan' = IF ListResult(fan.primaryErr, fan.secondaryErr) # Nil
                THEN [fan EXCEPT !.pc = "done", !.res = <<>>,
                                 !.ret = ListResult(fan.primaryErr, fan.secondaryErr)]
                ELSE [fan EXCEPT !.pc = "done", !.ret = Nil,
                                 !.res = mergeSnapshots(fan.primarySnaps, fan.secondarySnaps, order)]
    /\ UNCHANGED fanFrame

NextList ==
    \/ ListSpawn
    \/ ListPrimaryTask
    \/ ListSecondaryTask
    \/ ListWait
    \/ ListSelectPrimary
    \/ ListSelectSecondary
    \/ ListFinish

SpecList == InitList /\ [][NextList]_vars

\* ------------------------------------------------ Delete, task by task
\* fan while a Delete call is followed:
\*   pc          position of the caller: "spawn", "wait", "done"
\*   tp, ts      position of the primary / secondary deletion task
\*   pOut, sOut  what primary.Delete / secondary.Delete return
\*   results     the results channel of capacity 2
\*   pInv, sInv  number of invocations of primary.Delete / secondary.Delete
\*   ret         the error Delete returns
DeleteStart(pOut, sOut) ==
    [op |-> "Delete", pc |-> "spawn", tp |-> "none", ts |-> "none",
     pOut |-> pOut, sOut |-> sOut, results |-> <<>>,
     pInv |-> 0, sInv |-> 0, ret |-> Nil]

\* brtypes.OperationResult
OperationResult(endpoint, err) ==
    [endpoint |-> endpoint, success |-> (err = Nil), err |-> err]

\* var primaryResult, secondaryResult brtypes.OperationResult
ZeroResult == [endpoint |-> "", success |-> FALSE, err |-> Nil]

\* A Delete call on a Dual Store with no other call in progress, in every
\* state of the breaker, for every pair of endpoint answers.
InitDelete ==
    /\ rw = RwIdle
    /\ rs = RsIdle
    /\ RestIdle
    /\ calls = [c \in Callers |-> IdleCall]
    /\ primaryFailCount \in 0..FailThreshold
    /\ primaryFailed \in BOOLEAN
    /\ ~primaryFailed => primaryFailCount = 0
    /\ consec = primaryFailCount
    /\ engaged \in BOOLEAN
    /\ consec >= FailThreshold => engaged
    /\ \E pOut \in Outcomes, sOut \in Outcomes : fan = DeleteStart(pOut, sOut)

\* the caller starts the two deletion tasks and waits
DeleteSpawn ==
    /\ fan.op = "Delete" /\ fan.pc = "spawn"
    /\ fan' = [fan EXCEPT !.pc = "wait", !.tp = "run", !.ts = "run"]
    /\ UNCHANGED fanFrame

\* the primary deletion task: primary.Delete, then one send, then wg.Done
DeletePrimaryTask ==
    /\ fan.op = "Delete" /\ fan.tp = "run"
    /\ fan' = [fan EXCEPT !.tp = "done", !.pInv = @ + 1,
                          !.results = Append(@, OperationResult("primary", fan.pOut))]
    /\ UNCHANGED fanFrame

\* the secondary deletion task
DeleteSecondaryTask ==
    /\ fan.op = "Delete" /\ fan.ts = "run"
    /\ fan' = [fan EXCEPT !.ts = "done", !.sInv = @ + 1,
                          !.results = Append(@, OperationResult("secondary", fan.sOut))]
    /\ UNCHANGED fanFrame

\* for result := range results: the last result labelled "primary", and the
\* last one with any other label
RECURSIVE CollectResults(_, _)
CollectResults(acc, results) ==
    IF results = <<>> THEN acc
    ELSE CollectResults(
             IF Head(results).endpoint = "primary"
             THEN [acc EXCEPT !.primaryResult = Head(results)]
             ELSE [acc EXCEPT !.secondaryResult = Head(results)],
             Tail(results))

\* variant: a failure of either endpoint fails the call
DeleteOutcome_AnyFailure(primaryResult, secondaryResult) ==
    IF primaryResult.success /\ secondaryResult.success THEN Nil
    ELSE DeleteBothErr(primaryResult.err, secondaryResult.err)

\* Delete: the error returned for the two collected results
DeleteOutcome(primaryResult, secondaryResult) ==
    IF primaryResult.success /\ secondaryResult.success THEN Nil
    ELSE IF ~primaryResult.success /\ ~secondaryResult.success
    THEN DeleteBothErr(primaryResult.err, secondaryResult.err)
    ELSE Nil

\* variant: the caller goes on as soon as one task has finished
DeleteWait_NoJoin ==
    /\ fan.op = "Delete" /\ fan.pc = "wait"
    /\ fan.tp = "done" \/ fan.ts = "done"
    /\ LET r == CollectResults([primaryResult |-> ZeroResult, secondaryResult |-> ZeroResult],
                               fan.results)
       IN fan' = [fan EXCEPT !.pc = "done", !.results = <<>>,
                             !.ret = DeleteOutcome(r.primaryResult, r.secondaryResult)]
    /\ UNCHANGED fanFrame

\* wg.Wait() returns, the channel is closed and drained, the call returns
DeleteWait ==
    /\ fan.op = "Delete" /\ fan.pc = "wait"
    /\ fan.tp = "done" /\ fan.ts = "done"
    /\ LET r == CollectResults([primaryResult |-> ZeroResult, secondaryResult |-> ZeroResult],
                               fan.results)
       IN fan' = [fan EXCEPT !.pc = "done", !.results = <<>>,
                             !.ret = DeleteOutcome(r.primaryResult, r.secondaryResult)]
    /\ UNCHANGED fanFrame

NextDelete ==
    \/ DeleteSpawn
    \/ DeletePrimaryTask
    \/ DeleteSecondaryTask
    \/ DeleteWait

SpecDelete == InitDelete /\ [][NextDelete]_vars

\* -------------------------------------------------- ResilientS3SnapStore
\* error texts and net.Error capabilities of the errors a backend returns
BackendTexts ==
    { <<"connection", "timeout">>, <<"access", "denied">>,
      <<"no", "such", "host">>, <<"NoSuchKey">> }

\* "none": not a net.Error; "plain": a net.Error neither timeout nor temporary
NetKinds == {"none", "plain", "timeout", "temporary"}

BackendErrs == { [text |-> t, net |-> n] : t \in BackendTexts, n \in NetKinds }

\* ResilientS3SnapStore.IsTransientError
IsTransientError(err) ==
    IF err = Nil THEN FALSE
    ELSE IF \/ Contains(err.text, <<"no", "such", "host">>)
            \/ Contains(err.text, <<"dial", "tcp:", "lookup">>)
            \/ Contains(err.text, <<"request", "send", "failed">>)
         THEN TRUE
    ELSE IF \/ Contains(err.text, <<"connection", "refused">>)
            \/ Contains(err.text, <<"connection", "timeout">>)
            \/ Contains(err.text, <<"i/o", "timeout">>)
         THEN TRUE
    ELSE IF err.net # "none" THEN err.net \in {"timeout", "temporary"}
    ELSE FALSE

\* the content stream a Fetch returns, and the nil value of every result type
Stream == <<"rc">>
NoValue == <<>>

\* ResilientS3SnapStore.List
ResilientList(snapList, err) ==
    IF err # Nil /\ IsTransientError(err)
    THEN [val |-> <<>>, err |-> Nil]
    ELSE [val |-> snapList, err |-> err]

\* ResilientS3SnapStore.Fetch
ResilientFetch(rc, err) ==
    IF err # Nil /\ IsTransientError(err)
    THEN [val |-> NoValue, err |-> err]
    ELSE [val |-> rc, err |-> err]

\* variant: a Transient error of Save is swallowed as List's is
ResilientSave_Swallow(err) ==
    IF err # Nil /\ IsTransientError(err)
    THEN [val |-> NoValue, err |-> Nil]
    ELSE [val |-> NoValue, err |-> err]

\* ResilientS3SnapStore.Save
ResilientSave(err) ==
    IF err # Nil /\ IsTransientError(err)
    THEN [val |-> NoValue, err |-> err]
    ELSE [val |-> NoValue, err |-> err]

\* ResilientS3SnapStore.Delete
ResilientDelete(err) ==
    IF err # Nil /\ IsTransientError(err)
    THEN [val |-> NoValue, err |-> err]
    ELSE [val |-> NoValue, err |-> err]

\* rw while a call is followed: the operation, what the wrapped S3SnapStore
\* returns (bval, berr), and what the wrapper returns (val, err)
WrapperStart(op, bval, berr) ==
    [op |-> op, pc |-> "call", bval |-> bval, berr |-> berr, val |-> NoValue, err |-> Nil]

\* One call of one operation, for every answer of the wrapped store; a store
\* that fails returns no value with its error.
InitWrapper ==
    /\ DualInit
    /\ fan = FanIdle
    /\ rs = RsIdle
    /\ RestIdle
    /\ \E op \in Ops, berr \in {Nil} \cup BackendErrs, snapList \in SnapLists :
         /\ (op # "List" \/ berr # Nil) => snapList = <<>>
         /\ rw = WrapperStart(op,
                              IF berr # Nil THEN NoValue
                              ELSE IF op = "List" THEN snapList
                              ELSE IF op = "Fetch" THEN Stream
                              ELSE NoValue,
                              berr)

WrapperList ==
    /\ rw.op = "List" /\ rw.pc = "call"
    /\ LET r == ResilientList(rw.bval, rw.berr)
       IN rw' = [rw EXCEPT !.pc = "done", !.val = r.val, !.err = r.err]
    /\ UNCHANGED rwFrame

WrapperFetch ==
    /\ rw.op = "Fetch" /\ rw.pc = "call"
    /\ LET r == ResilientFetch(rw.bval, rw.berr)
       IN rw' = [rw EXCEPT !.pc = "done", !.val = r.val, !.err = r.err]
    /\ UNCHANGED rwFrame

WrapperSave ==
    /\ rw.op = "Save" /\ rw.pc = "call"
    /\ LET r == ResilientSave(rw.berr)
       IN rw' = [rw EXCEPT !.pc = "done", !.val = r.val, !.err = r.err]
    /\ UNCHANGED rwFrame

WrapperDelete ==
    /\ rw.op = "Delete" /\ rw.pc = "call"
    /\ LET r == ResilientDelete(rw.berr)
       IN rw' = [rw EXCEPT !.pc = "done", !.val = r.val, !.err = r.err]
    /\ UNCHANGED rwFrame

NextWrapper ==
    \/ WrapperList
    \/ WrapperFetch
    \/ WrapperSave
    \/ WrapperDelete

SpecWrapper == InitWrapper /\ [][NextWrapper]_vars

\* ------------------------------------------------------------- resolver
\* brtypes.SnapstoreProvider*: the providers the switch knows, and one it does not
ExternalProviders == {"S3", "ABS", "GCS", "Swift", "OSS", "ECS", "OCS"}
Providers == {"", "Local", "FakeFailed", "NFS"} \cup ExternalProviders

\* config.Container and the value of the container fallback variable
Containers == {"", "bucket"}

\* what os.Stat and os.MkdirAll answer for config.TempDir
TempDirs == {"exists", "missing", "statErr", "mkdirErr"}

\* what the provider's constructor answers
ErrRequest == MkErr(<<"RequestError:", "send", "request", "failed">>)
CtorOutcomes == {Nil, ErrTimeout, ErrDenied, ErrRequest}

\* the configuration of one endpoint
EndpointConfigs ==
    [provider : Providers, container : Containers, envContainer : Containers,
     tempDir : TempDirs, ctor : CtorOutcomes]

\* no secondary configuration block (GetSecondaryConfig returns nil)
NoConfig == [provider |-> "none"]

\* a SnapstoreConfig: the primary endpoint's fields and the secondary block
SnapstoreConfig(primary, secondary) ==
    [provider |-> primary.provider, container |-> primary.container,
     envContainer |-> primary.envContainer, tempDir |-> primary.tempDir,
     ctor |-> primary.ctor, secondary |-> secondary]

\* config.HasSecondaryEndpoint()
HasSecondaryEndpoint(config) == config.secondary # NoConfig

\* config.GetSecondaryConfig()
GetSecondaryConfig(config) == config.secondary

\* no store (nil), a backend of one provider, a Dual Store
NoStore == [kind |-> "none"]
Backend(kind, identifier) == [kind |-> kind, identifier |-> identifier]
NewDualSnapStore(primary, secondary) ==
    [kind |-> "Dual", primary |-> primary, secondary |-> secondary]

\* what a resolution returns
Resolved(store, err) == [store |-> store, err |-> err]

\* "return NewXSnapStore(config)": the constructor's store or its error
Construct(kind, identifier, ctor) ==
    IF ctor = Nil THEN Resolved(Backend(kind, identifier), Nil)
    ELSE Resolved(NoStore, ctor)

\* getSingleSnapstoreWithIdentifier
getSingleSnapstoreWithIdentifier(config, identifier) ==
    LET container == IF config.container = "" THEN config.envContainer
                     ELSE config.container
    IN IF container = "" /\ config.provider # "" /\ config.provider # "Local"
       THEN Resolved(NoStore, MkErr(<<"storage", "container", "name", "not", "specified">>))
       ELSE IF config.tempDir = "statErr"
       THEN Resolved(NoStore, MkErr(<<"failed", "to", "get", "file", "info", "of", "temporary", "directory">>))
       ELSE IF config.tempDir = "mkdirErr"
       THEN Resolved(NoStore, MkErr(<<"failed", "to", "create", "temporary", "directory">>))
       ELSE IF config.provider \in {"Local", ""}
       THEN Construct("Local", identifier, config.ctor)
       ELSE IF config.provider \in ExternalProviders
       THEN Construct(config.provider, identifier, config.ctor)
       ELSE IF config.provider = "FakeFailed"
       THEN Resolved(Backend("FakeFailed", identifier), Nil)
       ELSE Resolved(NoStore, MkErr(<<"unsupported", "storage", "provider">>))

\* getSingleSnapstore
getSingleSnapstore(config) == getSingleSnapstoreWithIdentifier(config, "primary")

\* variant: a failed secondary construction leaves the primary store alone
GetDualSnapstore_Degraded(config) ==
    LET p == getSingleSnapstore(config)
    IN IF p.err # Nil
       THEN Resolved(NoStore, MkErr(<<"failed", "to", "create", "primary", "snapstore:">> \o p.err.text))
       ELSE IF GetSecondaryConfig(config) = NoConfig
       THEN Resolved(NoStore, MkErr(<<"secondary", "configuration", "is", "invalid">>))
       ELSE LET s == getSingleSnapstore(GetSecondaryConfig(config))
            IN IF s.err # Nil THEN Resolved(p.store, Nil)
               ELSE Resolved(NewDualSnapStore(p.store, s.store), Nil)

\* GetDualSnapstore
GetDualSnapstore(config) ==
    LET p == getSingleSnapstore(config)
    IN IF p.err # Nil
       THEN Resolved(NoStore, MkErr(<<"failed", "to", "create", "primary", "snapstore:">> \o p.err.text))
       ELSE IF GetSecondaryConfig(config) = NoConfig
       THEN Resolved(NoStore, MkErr(<<"secondary", "configuration", "is", "invalid">>))
       ELSE LET s == getSingleSnapstore(GetSecondaryConfig(config))
            IN IF s.err # Nil
               THEN Resolved(NoStore, MkErr(<<"failed", "to", "create", "secondary", "snapstore:">> \o s.err.text))
               ELSE Resolved(NewDualSnapStore(p.store, s.store), Nil)

\* GetSnapstore
GetSnapstore(config) ==
    IF HasSecondaryEndpoint(config) THEN GetDualSnapstore(config)
    ELSE getSingleSnapstore(config)

\* ResilientS3SnapStore{S3SnapStore: s3Store}
ResilientS3(s3Store) == [kind |-> "ResilientS3", inner |-> s3Store]

\* createResilientSingleSnapstoreWithIdentifier
createResilientSingleSnapstoreWithIdentifier(config, identifier) ==
    LET r == getSingleSnapstoreWithIdentifier(config, identifier)
    IN IF r.err # Nil THEN Resolved(NoStore, r.err)
       ELSE IF config.provider = "S3" /\ r.store.kind = "S3"
       THEN Resolved(ResilientS3(r.store), Nil)
       ELSE Resolved(r.store, Nil)

\* createResilientSingleSnapstore
createResilientSingleSnapstore(config) ==
    createResilientSingleSnapstoreWithIdentifier(config, "primary")

\* variant: the construction-time classifier with the Dual Store's signatures
isSnapstoreTransientError_NoSdk(err) ==
    isTransientError(err)

\* isSnapstoreTransientError
isSnapstoreTransientError(err) ==
    IF err = Nil THEN FALSE
    ELSE IF \/ Contains(err.text, <<"no", "such", "host">>)
            \/ Contains(err.text, <<"dial", "tcp:", "lookup">>)
            \/ Contains(err.text, <<"request", "send", "failed">>)
         THEN TRUE
    ELSE IF \/ Contains(err.text, <<"connection", "refused">>)
            \/ Contains(err.text, <<"connection", "timeout">>)
            \/ Contains(err.text, <<"i/o", "timeout">>)
         THEN TRUE
    ELSE IF \/ Contains(err.text, <<"RequestError">>)
            \/ Contains(err.text, <<"RequestError:">>)
            \/ Contains(err.text, <<"NoCredentialsErr">>)
            \/ Contains(err.text, <<"NoCredentialsErr:">>)
            \/ Contains(err.text, <<"dial", "tcp">>)
            \/ Contains(err.text, <<"dial", "tcp:">>)
         THEN TRUE
    ELSE FALSE

ResilientBothFatalErr(perr, serr) ==
    MkErr(<<"failed", "to", "create", "both", "primary", "and", "secondary", "snapstores", "-", "Primary:">>
          \o perr.text \o <<"Secondary:">> \o serr.text)

ResilientUnavailableErr(perr, serr) ==
    MkErr(<<"all", "endpoints", "temporarily", "unavailable", "-", "Primary:">>
          \o perr.text \o <<"Secondary:">> \o serr.text)

\* variant: a Dual Store is required, one store alone is an error
createResilientDualSnapstore_Strict(config) ==
    LET p == createResilientSingleSnapstore(config)
        s == createResilientSingleSnapstoreWithIdentifier(GetSecondaryConfig(config), "secondary")
    IN IF p.err = Nil /\ s.err = Nil
       THEN Resolved(NewDualSnapStore(p.store, s.store), Nil)
       ELSE Resolved(NoStore, ResilientUnavailableErr(p.err, s.err))

\* createResilientDualSnapstore
createResilientDualSnapstore(config) ==
    LET p == createResilientSingleSnapstore(config)
    IN IF GetSecondaryConfig(config) = NoConfig
       THEN IF p.err # Nil
            THEN Resolved(NoStore, MkErr(<<"primary", "snapstore", "failed", "and", "no", "secondary", "configured:">> \o p.err.text))
            ELSE Resolved(p.store, Nil)
       ELSE LET s == createResilientSingleSnapstoreWithIdentifier(GetSecondaryConfig(config), "secondary")
            IN IF /\ p.err # Nil /\ s.err # Nil
                  /\ ~isSnapstoreTransientError(p.err) /\ ~isSnapstoreTransientError(s.err)
               THEN Resolved(NoStore, ResilientBothFatalErr(p.err, s.err))
               ELSE IF p.store # NoStore /\ s.store # NoStore
               THEN Resolved(NewDualSnapStore(p.store, s.store), Nil)
               ELSE IF p.store # NoStore THEN Resolved(p.store, Nil)
               ELSE IF s.store # NoStore THEN Resolved(s.store, Nil)
               ELSE Resolved(NoStore, ResilientUnavailableErr(p.err, s.err))

\* GetResilientSnapstore
GetResilientSnapstore(config) ==
    IF HasSecondaryEndpoint(config) THEN createResilientDualSnapstore(config)
    ELSE createResilientSingleSnapstore(config)

\* the two entry points of the resolver
Entries == {"GetSnapstore", "GetResilientSnapstore"}

\* rs while a resolution is followed: the entry point called, its
\* configuration, and the store and error it returns
ResolveStart(entry, config) ==
    [entry |-> entry, pc |-> "call", config |-> config, store |-> NoStore, err |-> Nil]

\* One resolution, for every configuration with and without a secondary block
InitResolve ==
    /\ DualInit
    /\ RestIdle
    /\ fan = FanIdle
    /\ rw = RwIdle
    /\ \E entry \in Entries, primary \in EndpointConfigs,
          secondary \in {NoConfig} \cup EndpointConfigs :
         rs = ResolveStart(entry, SnapstoreConfig(primary, secondary))

ResolveGetSnapstore ==
    /\ rs.entry = "GetSnapstore" /\ rs.pc = "call"
    /\ LET r == GetSnapstore(rs.config)
       IN rs' = [rs EXCEPT !.pc = "done", !.store = r.store, !.err = r.err]
    /\ UNCHANGED rsFrame

ResolveGetResilientSnapstore ==
    /\ rs.entry = "GetResilientSnapstore" /\ rs.pc = "call"
    /\ LET r == GetResilientSnapstore(rs.config)
       IN rs' = [rs EXCEPT !.pc = "done", !.store = r.store, !.err = r.err]
    /\ UNCHANGED rsFrame

NextResolve ==
    \/ ResolveGetSnapstore
    \/ ResolveGetResilientSnapstore

SpecResolve == InitResolve /\ [][NextResolve]_vars

\* ------------------------------- List through a resolved Dual Store
\* endpoint configurations whose construction succeeds: an S3 endpoint, which
\* the resilient resolver wraps, and an endpoint of another provider
ComposeConfigs ==
    { e \in EndpointConfigs :
        /\ e.provider \in {"S3", "ABS"}
        /\ e.container = "bucket" /\ e.envContainer = ""
        /\ e.tempDir = "exists" /\ e.ctor = Nil }

\* the stores GetResilientSnapstore builds from two such endpoints
ComposeStores ==
    { GetResilientSnapstore(SnapstoreConfig(p, s)).store :
        p \in ComposeConfigs, s \in ComposeConfigs }

\* what a backend's List answers: a list, or an error and no list
ComposeLists == { l \in SnapLists : Len(l) < MaxLen }

BackendAnswers ==
    { [val |-> l, err |-> Nil] : l \in ComposeLists }
    \cup { [val |-> <<>>, err |-> e] : e \in BackendErrs }

\* ds.primary.List / ds.secondary.List: ResilientS3SnapStore.List around the
\* S3 store's List, or the backend's own List
EndpointList(store, answer) ==
    IF store.kind = "ResilientS3" THEN ResilientList(answer.val, answer.err)
    ELSE answer

\* fan while a List call on a resolved Dual Store is followed: the fields of
\* ListStart, the store, and the answers of the two backends
ComposeStart(store, pBack, sBack) ==
    [op |-> "List", pc |-> "spawn", tp |-> "none", ts |-> "none",
     pIn |-> <<>>, pOut |-> Nil, sIn |-> <<>>, sOut |-> Nil,
     pSnapsCh |-> <<>>, pErrCh |-> <<>>, sSnapsCh |-> <<>>, sErrCh |-> <<>>,
     primarySnaps |-> <<>>, secondarySnaps |-> <<>>,
     primaryErr |-> Nil, secondaryErr |-> Nil,
     pInv |-> 0, sInv |-> 0, res |-> <<>>, ret |-> Nil,
     store |-> store, pBack |-> pBack, sBack |-> sBack]

\* A List call on a fresh Dual Store built by GetResilientSnapstore, for every
\* pair of backend answers.
InitCompose ==
    /\ DualInit
    /\ rw = RwIdle
    /\ rs = RsIdle
    /\ RestIdle
    /\ \E store \in ComposeStores, pBack \in BackendAnswers, sBack \in BackendAnswers :
         fan = ComposeStart(store, pBack, sBack)

\* the primary listing task: ds.primary.List, then one send, then wg.Done
ComposePrimaryTask ==
    /\ fan.op = "List" /\ fan.tp = "run"
    /\ LET r == EndpointList(fan.store.primary, fan.pBack)
       IN fan' = IF r.err # Nil
                 THEN [fan EXCEPT !.tp = "done", !.pInv = @ + 1, !.pIn = r.val, !.pOut = r.err,
                                  !.pErrCh = Append(@, r.err)]
                 ELSE [fan EXCEPT !.tp = "done", !.pInv = @ + 1, !.pIn = r.val, !.pOut = r.err,
                                  !.pSnapsCh = Append(@, r.val)]
    /\ UNCHANGED fanFrame

\* the secondary listing task
ComposeSecondaryTask ==
    /\ fan.op = "List" /\ fan.ts = "run"
    /\ LET r == EndpointList(fan.store.secondary, fan.sBack)
       IN fan' = IF r.err # Nil
                 THEN [fan EXCEPT !.ts = "done", !.sInv = @ + 1, !.sIn = r.val, !.sOut = r.err,
                                  !.sErrCh = Append(@, r.err)]
                 ELSE [fan EXCEPT !.ts = "done", !.sInv = @ + 1, !.sIn = r.val, !.sOut = r.err,
                                  !.sSnapsCh = Append(@, r.val)]
    /\ UNCHANGED fanFrame

NextCompose ==
    \/ ListSpawn
    \/ ComposePrimaryTask
    \/ ComposeSecondaryTask
    \/ ListWait
    \/ ListSelectPrimary
    \/ ListSelectSecondary
    \/ ListFinish

SpecCompose == InitCompose /\ [][NextCompose]_vars

\* -------------------------------------------------- chunk upload pipeline
\* noOfChunks, the size of the worker pool, and maxRetryAttempts
NumChunks == 2
NumWorkers == 2
maxRetryAttempts == 2

Chunks == 1..NumChunks
Workers == 1..NumWorkers

\* the attempt counter of a chunk at its first submission
InitialAttempt == 1

\* the capacity of chunkUploadCh and of resCh: room for every chunk
QueueCap == NumChunks

\* chunk{id, attempt} and chunkUploadResult{chunk, err}
Chunk(id, attempt) == [id |-> id, attempt |-> attempt]
ChunkUploadResult(chunk, ok) == [id |-> chunk.id, attempt |-> chunk.attempt, ok |-> ok]

\* the nil *chunkUploadResult
NoResult == [id |-> 0, attempt |-> 0, ok |-> TRUE]

\* a time.AfterFunc closure: pc "none" (no closure pending), "armed" (scheduled),
\* "default" (past the stop check, about to send)
NoTimer == [pc |-> "none", attempt |-> 0]

\* a worker: pc "select" (waiting for work or stop), "upload", "exit"
FreeWorker == [pc |-> "select", chunk |-> Chunk(0, 0)]

RECURSIVE FirstSubmissions(_)
FirstSubmissions(n) ==
    IF n = 0 THEN <<>>
    ELSE Append(FirstSubmissions(n - 1), Chunk(n, InitialAttempt))

\* pipe while a run is followed:
\*   fails            per chunk, the number of uploads that fail before one succeeds
\*   chunkUploadCh    the input queue; resCh  the result queue
\*   stopCh           TRUE once closed; closes  the number of close(stopCh)
\*   remainingChunks  the coordinator's counter; coord, ret  its position and result
\*   timers, workers  the pending resubmissions and the pool
\*   uploads          per chunk, the number of uploads done
PipeStart(fails) ==
    [coord |-> "range", fails |-> fails,
     chunkUploadCh |-> FirstSubmissions(NumChunks), resCh |-> <<>>,
     stopCh |-> FALSE, closes |-> 0,
     remainingChunks |-> NumChunks, ret |-> NoResult,
     timers |-> [c \in Chunks |-> NoTimer],
     workers |-> [w \in Workers |-> FreeWorker],
     uploads |-> [c \in Chunks |-> 0]]

\* Every chunk submitted once, the pool started, collectChunkUploadError
\* entered; a chunk fails 0..maxRetryAttempts times before it would succeed.
InitPipeline ==
    /\ DualInit
    /\ fan = FanIdle /\ rw = RwIdle /\ rs = RsIdle /\ cl = ClIdle /\ lk = LkIdle
    /\ \E fails \in [Chunks -> 0..maxRetryAttempts] : pipe = PipeStart(fails)

\* a worker takes the next chunk of the input queue
WorkerTake(w) ==
    /\ pipe.coord # "none"
    /\ pipe.workers[w].pc = "select"
    /\ pipe.chunkUploadCh # <<>>
    /\ pipe' = [pipe EXCEPT !.chunkUploadCh = Tail(@),
                            !.workers[w] = [pc |-> "upload", chunk |-> Head(pipe.chunkUploadCh)]]
    /\ UNCHANGED pipeFrame

\* a worker uploads its chunk and sends the result
WorkerUpload(w) ==
    /\ pipe.coord # "none"
    /\ pipe.workers[w].pc = "upload"
    /\ Len(pipe.resCh) < QueueCap
    /\ LET chunk == pipe.workers[w].chunk
           ok == pipe.uploads[chunk.id] >= pipe.fails[chunk.id]
       IN pipe' = [pipe EXCEPT !.uploads[chunk.id] = @ + 1,
                               !.resCh = Append(@, ChunkUploadResult(chunk, ok)),
                               !.workers[w] = FreeWorker]
    /\ UNCHANGED pipeFrame

\* a worker sees the stop signal and ends
WorkerStop(w) ==
    /\ pipe.coord # "none"
    /\ pipe.workers[w].pc = "select"
    /\ pipe.stopCh
    /\ pipe' = [pipe EXCEPT !.workers[w].pc = "exit"]
    /\ UNCHANGED pipeFrame

\* variant: a failed result ends the pipeline one attempt early
Terminal_Early(chunkRes) == chunkRes.attempt >= maxRetryAttempts - 1

\* if chunkRes.chunk.attempt == maxRetryAttempts
Terminal(chunkRes) == chunkRes.attempt = maxRetryAttempts

\* variant: the stop signal is not fired on full success
AfterSuccess_NoStop(p) ==
    [p EXCEPT !.resCh = Tail(@), !.remainingChunks = @ - 1,
              !.coord = IF p.remainingChunks - 1 = 0 THEN "returned" ELSE "range"]

\* remainingChunks--; if remainingChunks == 0 { close(stopCh); break }
AfterSuccess(p) ==
    IF p.remainingChunks - 1 = 0
    THEN [p EXCEPT !.resCh = Tail(@), !.remainingChunks = @ - 1,
                   !.stopCh = TRUE, !.closes = @ + 1, !.coord = "returned"]
    ELSE [p EXCEPT !.resCh = Tail(@), !.remainingChunks = @ - 1]

\* variant: the resubmission keeps the attempt counter of the failed result
Reschedule_SameAttempt(p, chunkRes) ==
    [p EXCEPT !.resCh = Tail(@),
              !.timers[chunkRes.id] = [pc |-> "armed", attempt |-> chunkRes.attempt]]

\* chunk.attempt++; time.AfterFunc(...)
Reschedule(p, chunkRes) ==
    [p EXCEPT !.resCh = Tail(@),
              !.timers[chunkRes.id] = [pc |-> "armed", attempt |-> chunkRes.attempt + 1]]

\* variant: the coordinator goes on after the stop signal on a terminal failure
AfterFailure_GoOn(p, chunkRes) ==
    IF Terminal(chunkRes)
    THEN [p EXCEPT !.resCh = Tail(@), !.stopCh = TRUE, !.closes = @ + 1, !.ret = chunkRes]
    ELSE Reschedule(p, chunkRes)

\* if chunkRes.err != nil { ... }
AfterFailure(p, chunkRes) ==
    IF Terminal(chunkRes)
    THEN [p EXCEPT !.resCh = Tail(@), !.stopCh = TRUE, !.closes = @ + 1,
                   !.coord = "returned", !.ret = chunkRes]
    ELSE Reschedule(p, chunkRes)

\* one iteration of "for chunkRes := range resCh"
CollectChunkResult ==
    /\ pipe.coord = "range"
    /\ pipe.resCh # <<>>
    /\ LET chunkRes == Head(pipe.resCh)
       IN pipe' = IF chunkRes.ok THEN AfterSuccess(pipe)
                  ELSE AfterFailure(pipe, chunkRes)
    /\ UNCHANGED pipeFrame

\* the closure starts: select { case <-stopCh: return; default: ... }
TimerCheck(c) ==
    /\ pipe.coord # "none"
    /\ pipe.timers[c].pc = "armed"
    /\ pipe' = IF pipe.stopCh
               THEN [pipe EXCEPT !.timers[c] = NoTimer]
               ELSE [pipe EXCEPT !.timers[c].pc = "default"]
    /\ UNCHANGED pipeFrame

\* variant: the send waits for a worker to receive (a queue without room)
CanSend_Unbuffered(p) ==
    \E w \in Workers : p.workers[w].pc = "select" /\ p.chunkUploadCh = <<>>

\* chunkUploadCh <- *chunk can proceed
CanSend(p) == Len(p.chunkUploadCh) < QueueCap

\* the closure's default case: chunkUploadCh <- *chunk
TimerSend(c) ==
    /\ pipe.coord # "none"
    /\ pipe.timers[c].pc = "default"
    /\ CanSend(pipe)
    /\ pipe' = [pipe EXCEPT !.chunkUploadCh = Append(@, Chunk(c, pipe.timers[c].attempt)),
                            !.timers[c] = NoTimer]
    /\ UNCHANGED pipeFrame

NextPipeline ==
    \/ \E w \in Workers : WorkerTake(w)
    \/ \E w \in Workers : WorkerUpload(w)
    \/ \E w \in Workers : WorkerStop(w)
    \/ CollectChunkResult
    \/ \E c \in Chunks : TimerCheck(c)
    \/ \E c \in Chunks : TimerSend(c)

SpecPipeline == InitPipeline /\ [][NextPipeline]_vars

\* Every worker, every timer and the coordinator is a goroutine the runtime
\* schedules: one that can take its next step eventually takes it.
PipelineFairness ==
    /\ \A w \in Workers : WF_vars(WorkerTake(w)) /\ WF_vars(WorkerUpload(w)) /\ WF_vars(WorkerStop(w))
    /\ WF_vars(CollectChunkResult)
    /\ \A c \in Chunks : WF_vars(TimerCheck(c)) /\ WF_vars(TimerSend(c))

SpecPipelineFair == SpecPipeline /\ PipelineFairness

\* ------------------------------------------------------ classification
\* the three classifiers
Classifiers == {"DualSnapStore", "ResilientS3SnapStore", "construction"}

\* the errors classified: every text with every net.Error capability
ClassifiedTexts == BackendTexts \cup {ErrRequest.text, <<"dial", "tcp:", "connect">>}
ClassifiedErrs == { [text |-> t, net |-> n] : t \in ClassifiedTexts, n \in NetKinds }

\* cl while a classification is followed: the classifier, the two errors it
\* is called with, and the two answers
ClassifyStart(classifier, e1, e2) ==
    [pc |-> "call", classifier |-> classifier, e1 |-> e1, e2 |-> e2,
     r1 |-> FALSE, r2 |-> FALSE]

InitClassify ==
    /\ DualInit
    /\ fan = FanIdle /\ rw = RwIdle /\ rs = RsIdle /\ pipe = PipeIdle /\ lk = LkIdle
    /\ \E classifier \in Classifiers, e1 \in ClassifiedErrs, e2 \in ClassifiedErrs :
         cl = ClassifyStart(classifier, e1, e2)

\* ds.isTransientError on both errors
ClassifyDual ==
    /\ cl.pc = "call" /\ cl.classifier = "DualSnapStore"
    /\ cl' = [cl EXCEPT !.pc = "done", !.r1 = isTransientError(cl.e1),
                        !.r2 = isTransientError(cl.e2)]
    /\ UNCHANGED clFrame

\* r.IsTransientError on both errors
ClassifyWrapper ==
    /\ cl.pc = "call" /\ cl.classifier = "ResilientS3SnapStore"
    /\ cl' = [cl EXCEPT !.pc = "done", !.r1 = IsTransientError(cl.e1),
                        !.r2 = IsTransientError(cl.e2)]
    /\ UNCHANGED clFrame

\* isSnapstoreTransientError on both errors
ClassifyConstruction ==
    /\ cl.pc = "call" /\ cl.classifier = "construction"
    /\ cl' = [cl EXCEPT !.pc = "done", !.r1 = isSnapstoreTransientError(cl.e1),
                        !.r2 = isSnapstoreTransientError(cl.e2)]
    /\ UNCHANGED clFrame

NextClassify ==
    \/ ClassifyDual
    \/ ClassifyWrapper
    \/ ClassifyConstruction

SpecClassify == InitClassify /\ [][NextClassify]_vars

\* ------------------------------------------------------ the breaker's lock
\* lk while calls on the breaker are followed statement by statement:
\*   writer    the caller holding ds.mu exclusively (0: none)
\*   readers   the callers holding ds.mu shared
\*   pc        per caller, the statement it executes next:
\*             "rlock", "read", "runlock"   isPrimaryDisabled
\*             "primary"                    the call on the primary endpoint
\*             "lock", "write", "unlock"    resetPrimaryFailureState / recordPrimaryFailure
\*             "warnf"                      recordPrimaryFailure's log line
\*   err       per caller, what the primary endpoint returned
\*   disabled  per caller, what isPrimaryDisabled returned
LockStart ==
    [on |-> TRUE, writer |-> 0, readers |-> {},
     pc |-> [c \in Callers |-> "rlock"],
     err |-> [c \in Callers |-> Unknown],
     disabled |-> [c \in Callers |-> FALSE]]

\* Every caller enters one Save or Fetch, in any state of the breaker
InitLock ==
    /\ primaryFailCount \in 0..FailThreshold
    /\ primaryFailed \in BOOLEAN
    /\ primaryFailCount > 0 => primaryFailed
    /\ calls = [c \in Callers |-> IdleCall]
    /\ consec = primaryFailCount
    /\ engaged = isPrimaryDisabled
    /\ fan = FanIdle /\ rw = RwIdle /\ rs = RsIdle /\ pipe = PipeIdle /\ cl = ClIdle
    /\ lk = LockStart

\* ds.mu.RLock()
LockRLock(c) ==
    /\ lk.on /\ lk.pc[c] = "rlock"
    /\ lk.writer = 0
    /\ lk' = [lk EXCEPT !.readers = @ \cup {c}, !.pc[c] = "read"]
    /\ UNCHANGED <<primaryFailed, primaryFailCount, lkFrame>>

\* return ds.primaryFailed && ds.primaryFailCount >= 3
LockReadDisabled(c) ==
    /\ lk.on /\ lk.pc[c] = "read"
    /\ lk' = [lk EXCEPT !.disabled[c] = isPrimaryDisabled, !.pc[c] = "runlock"]
    /\ UNCHANGED <<primaryFailed, primaryFailCount, lkFrame>>

\* defer ds.mu.RUnlock(), then the branch of Save / Fetch
LockRUnlock(c) ==
    /\ lk.on /\ lk.pc[c] = "runlock"
    /\ lk' = [lk EXCEPT !.readers = @ \ {c},
                        !.pc[c] = IF lk.disabled[c] THEN "done" ELSE "primary"]
    /\ UNCHANGED <<primaryFailed, primaryFailCount, lkFrame>>

\* ds.primary.Save / ds.primary.Fetch returns
LockPrimary(c) ==
    /\ lk.on /\ lk.pc[c] = "primary"
    /\ \E err \in Outcomes : lk' = [lk EXCEPT !.err[c] = err, !.pc[c] = "lock"]
    /\ UNCHANGED <<primaryFailed, primaryFailCount, lkFrame>>

\* ds.mu.Lock()
LockLock(c) ==
    /\ lk.on /\ lk.pc[c] = "lock"
    /\ lk.writer = 0 /\ lk.readers = {}
    /\ lk' = [lk EXCEPT !.writer = c, !.pc[c] = "write"]
    /\ UNCHANGED <<primaryFailed, primaryFailCount, lkFrame>>

\* the assignments of resetPrimaryFailureState / recordPrimaryFailure
LockWrite(c) ==
    /\ lk.on /\ lk.pc[c] = "write"
    /\ LET after == IF lk.err[c] = Nil
                    THEN resetPrimaryFailureState(primaryFailed, primaryFailCount)
                    ELSE recordPrimaryFailure(primaryFailed, primaryFailCount, lk.err[c])
       IN /\ primaryFailed' = after[1]
          /\ primaryFailCount' = after[2]
    /\ lk' = [lk EXCEPT !.pc[c] = "unlock"]
    /\ UNCHANGED lkFrame

\* ds.mu.Unlock(); after a Transient failure the log line follows
LockUnlock(c) ==
    /\ lk.on /\ lk.pc[c] = "unlock"
    /\ lk' = [lk EXCEPT !.writer = 0,
                        !.pc[c] = IF isTransientError(lk.err[c]) THEN "warnf" ELSE "done"]
    /\ UNCHANGED <<primaryFailed, primaryFailCount, lkFrame>>

\* ds.logger.Warnf("... (count: %d) ...", ds.primaryFailCount, err)
LockWarnf(c) ==
    /\ lk.on /\ lk.pc[c] = "warnf"
    /\ lk' = [lk EXCEPT !.pc[c] = "done"]
    /\ UNCHANGED <<primaryFailed, primaryFailCount, lkFrame>>

NextLock ==
    \/ \E c \in Callers : LockRLock(c)
    \/ \E c \in Callers : LockReadDisabled(c)
    \/ \E c \in Callers : LockRUnlock(c)
    \/ \E c \in Callers : LockPrimary(c)
    \/ \E c \in Callers : LockLock(c)
    \/ \E c \in Callers : LockWrite(c)
    \/ \E c \in Callers : LockUnlock(c)
    \/ \E c \in Callers : LockWarnf(c)

SpecLock == InitLock /\ [][NextLock]_vars

\* ================================================================== claims
SaveFetch == {"Save", "Fetch"}

\* c's primary operation was invoked and failed / succeeded
PrimaryFailedIn(c) == calls[c].pInv >= 1 /\ calls[c].pWould # Nil
PrimarySucceededIn(c) == calls[c].pInv >= 1 /\ calls[c].pWould = Nil

C2_SaveFailover ==
    \A c \in Callers :
        (calls[c].op = "Save" /\ PrimaryFailedIn(c))
            => /\ calls[c].pc \in {"secondary", "done"}
               /\ calls[c].pc = "done"
                    => /\ calls[c].sInv = 1
                       /\ calls[c].sWould = Nil => calls[c].ret = Nil

C2_Witness ==
    \E c \in Callers :
        /\ calls[c].op = "Save" /\ calls[c].pc = "done"
        /\ PrimaryFailedIn(c) /\ ~isTransientError(calls[c].pWould)
        /\ calls[c].sInv = 1 /\ calls[c].sWould = Nil /\ calls[c].ret = Nil

\* C3: a Save in which primary.Save and secondary.Save were both invoked and
\* both failed returns one error whose text holds the primary's error text
\* after "Primary:" and the secondary's after "Secondary:".
C3_SaveDoubleFailure ==
    \A c \in Callers :
        (/\ calls[c].op = "Save" /\ calls[c].pc = "done"
         /\ PrimaryFailedIn(c)
         /\ calls[c].sInv >= 1 /\ calls[c].sWould # Nil)
            => /\ calls[c].ret # Nil
               /\ Contains(calls[c].ret.text, <<"Primary:">> \o calls[c].pWould.text)
               /\ Contains(calls[c].ret.text, <<"Secondary:">> \o calls[c].sWould.text)

C3_Witness ==
    \E c \in Callers :
        /\ calls[c].op = "Save" /\ calls[c].pc = "done"
        /\ PrimaryFailedIn(c) /\ calls[c].sInv = 1
        /\ calls[c].sWould # Nil /\ calls[c].sWould # calls[c].pWould

\* c takes the step that enters a Save (content readable) or a Fetch
BeginsSaveFetch(c) ==
    /\ calls[c].pc = "idle"
    /\ calls'[c].op \in SaveFetch
    /\ calls'[c].ret # ReadErr

\* C4 as stated: once three consecutive Transient primary failures have been
\* recorded the primary is disabled and every Save or Fetch that starts
\* afterwards skips the primary; with fewer than three it is attempted.
C4_Original ==
    [][ /\ consec' >= FailThreshold => isPrimaryDisabled'
        /\ \A c \in Callers :
             BeginsSaveFetch(c)
                => /\ engaged => calls'[c].pc = "secondary"
                   /\ consec < FailThreshold => calls'[c].pc = "primary" ]_vars

\* C4 amended: while the last three or more primary outcomes recorded are
\* Transient failures the primary is disabled, and a Save or Fetch that starts
\* then goes straight to the secondary and never invokes the primary; with a
\* shorter run the primary is attempted.  The primary's operation is invoked
\* by a Save or Fetch only from the position reached by passing the check.
C4_BreakerEngages ==
    [][ /\ consec' >= FailThreshold => isPrimaryDisabled'
        /\ \A c \in Callers :
             /\ BeginsSaveFetch(c)
                  => /\ consec >= FailThreshold
                        => calls'[c].pc = "secondary" /\ calls'[c].pInv = 0
                     /\ consec < FailThreshold => calls'[c].pc = "primary"
             /\ (calls'[c].op \in SaveFetch /\ calls'[c].pInv # calls[c].pInv)
                  => calls[c].pc = "primary" ]_vars

C4_Witness ==
    /\ consec >= FailThreshold
    /\ \E c \in Callers :
         /\ calls[c].op = "Fetch" /\ calls[c].pc = "done"
         /\ calls[c].pInv = 0 /\ calls[c].sInv = 1

\* no Save or Fetch is past its disable check and still waiting on the primary
NoneOnPrimary == \A c \in Callers : calls[c].pc # "primary"

Settled == isPrimaryDisabled /\ NoneOnPrimary

\* C5 as stated: once disabled, the primary stays disabled in every later
\* state, whatever calls are in flight.
C5_Original == [][isPrimaryDisabled => isPrimaryDisabled']_vars

\* C5 amended: once the primary is disabled and no Save or Fetch that passed
\* its disable check earlier is still waiting on the primary, it stays
\* disabled for ever; the only step that re-enables a disabled primary is the
\* recording of a success or of a Fatal failure by such a waiting call.
C5_PermanentOnceSettled ==
    [][ /\ Settled => Settled'
        /\ (isPrimaryDisabled /\ ~isPrimaryDisabled')
             => \E c \in Callers :
                  /\ calls[c].pc = "primary"
                  /\ calls'[c].pInv = calls[c].pInv + 1
                  /\ ~isTransientError(calls'[c].pWould) ]_vars

C5_Witness ==
    /\ Settled
    /\ \E c \in Callers :
         calls[c].op = "Save" /\ calls[c].pc = "done" /\ calls[c].pInv = 0 /\ calls[c].sInv = 1
    /\ \E c \in Callers : calls[c].op \in {"List", "Delete"} /\ calls[c].pc = "done"

\* C6: the step in which a Save or Fetch records its primary's success leaves
\* the counter at 0 and the primary enabled, and the primary is disabled only
\* while the current run of Transient failures is at least three long.
C6_PrimarySuccessResets ==
    [][ /\ \A c \in Callers :
             (/\ calls[c].pc = "primary"
              /\ calls'[c].pInv = calls[c].pInv + 1
              /\ calls'[c].pWould = Nil)
                => /\ primaryFailCount' = 0
                   /\ ~primaryFailed'
                   /\ ~isPrimaryDisabled'
        /\ isPrimaryDisabled' => consec' >= FailThreshold ]_vars

C6_Witness ==
    /\ engaged
    /\ primaryFailCount = 0 /\ ~primaryFailed
    /\ \E c \in Callers : calls[c].pc = "done" /\ calls[c].op \in SaveFetch /\ PrimarySucceededIn(c)

\* C7: the step in which a Save or Fetch records a Fatal primary failure
\* leaves the counter at 0 and the primary enabled, whatever the counter was.
C7_FatalResetsCounter ==
    [][ \A c \in Callers :
          (/\ calls[c].pc = "primary"
           /\ calls'[c].pInv = calls[c].pInv + 1
           /\ calls'[c].pWould # Nil
           /\ ~isTransientError(calls'[c].pWould))
             => /\ primaryFailCount' = 0
                /\ ~isPrimaryDisabled' ]_vars

C7_Witness ==
    /\ primaryFailed /\ primaryFailCount = 0
    /\ \E c \in Callers :
         /\ calls[c].pc = "secondary" /\ calls[c].op \in SaveFetch
         /\ PrimaryFailedIn(c) /\ ~isTransientError(calls[c].pWould)

\* C8: a Fetch in which primary.Fetch failed with e1 and secondary.Fetch failed
\* with e2 returns one error whose text holds the text of e1 and the text of e2.
C8_FetchDoubleFailure ==
    \A c \in Callers :
        (/\ calls[c].op = "Fetch" /\ calls[c].pc = "done"
         /\ PrimaryFailedIn(c)
         /\ calls[c].sInv >= 1 /\ calls[c].sWould # Nil)
            => /\ calls[c].ret # Nil
               /\ Contains(calls[c].ret.text, calls[c].pWould.text)
               /\ Contains(calls[c].ret.text, calls[c].sWould.text)

\* C9: a Save (content readable) or Fetch returns success whenever at least one
\* of the endpoints returns success for the request, in every breaker state.
C9_SurvivesOneEndpoint ==
    \A c \in Callers :
        (/\ calls[c].op \in SaveFetch /\ calls[c].pc = "done"
         /\ calls[c].ret # ReadErr
         /\ (calls[c].pWould = Nil \/ calls[c].sWould = Nil))
            => calls[c].ret = Nil

\* C10: after a Save that returned success while both endpoints accept the
\* write, primary.Save and secondary.Save have both been invoked for it.
C10_WritesDuplicated ==
    \A c \in Callers :
        (/\ calls[c].op = "Save" /\ calls[c].pc = "done" /\ calls[c].ret = Nil
         /\ calls[c].pWould = Nil /\ calls[c].sWould = Nil)
            => calls[c].pInv = 1 /\ calls[c].sInv = 1


\* ------------------------------------------------------------ List claims
Range(seq) == { seq[i] : i \in 1..Len(seq) }

ListDone == fan.op = "List" /\ fan.pc = "done"

\* the merged list of two lists, for one order of the map
CanonMerge(p, q) ==
    mergeSnapshots(p, q, CHOOSE o \in MapOrders(snapMapOf(p, q)) : TRUE)

\* C11: when primary.List and secondary.List both fail with Transient errors,
\* List returns the "both endpoints temporarily unavailable" error and no list.
C11_ListBothTransient ==
    (/\ ListDone
     /\ isTransientError(fan.pOut) /\ isTransientError(fan.sOut))
        => /\ fan.ret # Nil
           /\ Contains(fan.ret.text, <<"both", "endpoints", "temporarily", "unavailable">>)
           /\ fan.res = <<>>

\* C12: when primary.List and secondary.List both fail and at least one error
\* is Fatal, List returns the aggregate error naming both errors, not the
\* "temporarily unavailable" one, and no list.
C12_ListBothFailOneFatal ==
    (/\ ListDone
     /\ fan.pOut # Nil /\ fan.sOut # Nil
     /\ (~isTransientError(fan.pOut) \/ ~isTransientError(fan.sOut)))
        => /\ fan.ret # Nil
           /\ Contains(fan.ret.text, <<"failed", "to", "list", "snapshots", "from", "both", "endpoints">>)
           /\ Contains(fan.ret.text, <<"Primary:">> \o fan.pOut.text)
           /\ Contains(fan.ret.text, <<"Secondary:">> \o fan.sOut.text)
           /\ fan.res = <<>>

\* C13: when exactly one of primary.List and secondary.List fails, List returns
\* no error and the merge of the surviving endpoint's list with the empty list.
C13_ListOneEndpointFails ==
    (/\ ListDone
     /\ (fan.pOut = Nil) # (fan.sOut = Nil))
        => /\ fan.ret = Nil
           /\ fan.res = CanonMerge(fan.pIn, fan.sIn)
           /\ IsSorted(fan.res)
           /\ { SnapKey(x) : x \in Range(fan.res) }
                = { SnapKey(x) : x \in Range(fan.pIn) \cup Range(fan.sIn) }

\* C14: the merged list holds at most one entry per (directory, name) key,
\* and for a key that both input lists hold, the merged entry of that key is
\* an entry of the primary list and, where the two endpoints differ, not the
\* secondary's; this for input lists in any order.
C14_MergePrecedence ==
    (ListDone /\ fan.ret = Nil)
        => /\ \A i, j \in 1..Len(fan.res) :
                i # j => PairOf(fan.res[i]) # PairOf(fan.res[j])
           /\ \A y \in Range(fan.res) :
                (/\ \E x \in Range(fan.primarySnaps) : PairOf(x) = PairOf(y)
                 /\ \E x \in Range(fan.secondarySnaps) : PairOf(x) = PairOf(y))
                    => \E x \in Range(fan.primarySnaps) : x = y

C14_Witness ==
    /\ ListDone /\ fan.ret = Nil
    /\ \E x \in Range(fan.primarySnaps), y \in Range(fan.secondarySnaps) :
         /\ PairOf(x) = PairOf(y) /\ x.rev # y.rev
         /\ x \in Range(fan.res)
    /\ Len(fan.res) = 2

\* C15: every (directory, name) pair that occurs in either input list occurs
\* exactly once in the merged list.
C15_MergeIdentityIsPair ==
    (ListDone /\ fan.ret = Nil)
        => \A x \in Range(fan.primarySnaps) \cup Range(fan.secondarySnaps) :
               Cardinality({ i \in 1..Len(fan.res) : PairOf(fan.res[i]) = PairOf(x) }) = 1

\* C16: List passes the join only when both listing tasks have finished, and
\* what it returns is determined by what the two endpoints returned: the error
\* for these two results, or the sorted merge of the two lists.
C16_ListJoinedDeterministic ==
    /\ (fan.op = "List" /\ fan.pc \in {"selectP", "selectS", "merge", "done"})
          => fan.tp = "done" /\ fan.ts = "done"
    /\ ListDone
          => /\ fan.ret = ListResult(fan.pOut, fan.sOut)
             /\ fan.ret = Nil
                  => fan.res = CanonMerge(fan.pIn, fan.sIn) /\ IsSorted(fan.res)


\* ---------------------------------------------------------- Delete claims
DeleteDone == fan.op = "Delete" /\ fan.pc = "done"

\* C17: a Delete call invokes primary.Delete and secondary.Delete at most once
\* each, and when it returns it has invoked each exactly once and both tasks
\* have finished; this in every state of the breaker and for every pair of
\* endpoint results.
C17_DeleteContactsBoth ==
    fan.op = "Delete"
        => /\ fan.pInv <= 1 /\ fan.sInv <= 1
           /\ fan.pc = "done"
                => /\ fan.pInv = 1 /\ fan.sInv = 1
                   /\ fan.tp = "done" /\ fan.ts = "done"

C17_Witness ==
    /\ DeleteDone
    /\ isPrimaryDisabled
    /\ fan.pInv = 1 /\ fan.sInv = 1
    /\ fan.pOut = Nil /\ fan.sOut # Nil

\* C18: Delete returns an error exactly when primary.Delete and
\* secondary.Delete both failed, and that error names both errors.
C18_DeleteOutcome ==
    DeleteDone
        => /\ (fan.ret # Nil) <=> (fan.pOut # Nil /\ fan.sOut # Nil)
           /\ fan.ret # Nil
                => /\ Contains(fan.ret.text, <<"Primary:">> \o fan.pOut.text)
                   /\ Contains(fan.ret.text, <<"Secondary:">> \o fan.sOut.text)

C18_Witness ==
    /\ DeleteDone
    /\ fan.pOut = Nil /\ fan.sOut # Nil /\ fan.ret = Nil
    /\ fan.pInv = 1 /\ fan.sInv = 1


\* --------------------------------------------------------- wrapper claims
WrapperDone == rw.op # "none" /\ rw.pc = "done"

\* C19: the wrapper returns the value and the error of the wrapped store,
\* except that List returns the empty list and no error when the wrapped
\* store's List fails with a Transient error.
C19_WrapperPassThrough ==
    WrapperDone
        => IF rw.op = "List" /\ isTransientError(rw.berr)
           THEN rw.val = <<>> /\ rw.err = Nil
           ELSE rw.val = rw.bval /\ rw.err = rw.berr

C19_Witness ==
    /\ WrapperDone
    /\ rw.op = "Save" /\ isTransientError(rw.berr) /\ rw.err = rw.berr


\* -------------------------------------------------------- resolver claims
ResolveDone == rs.entry # "none" /\ rs.pc = "done"

\* C20: GetSnapstore on a configuration with a secondary block returns the
\* Dual Store over the two constructed backends, or an error and no store when
\* either construction fails; without a secondary block it returns what the
\* construction of the one backend returns, a backend of the declared
\* provider, never a Dual Store and never a Resilient wrapper.
C20_BasicResolve ==
    (ResolveDone /\ rs.entry = "GetSnapstore")
        => LET p == getSingleSnapstore(rs.config)
           IN IF rs.config.secondary # NoConfig
              THEN LET s == getSingleSnapstore(rs.config.secondary)
                   IN IF p.err = Nil /\ s.err = Nil
                      THEN /\ rs.err = Nil
                           /\ rs.store.kind = "Dual"
                           /\ rs.store.primary = p.store
                           /\ rs.store.secondary = s.store
                      ELSE rs.err # Nil /\ rs.store = NoStore
              ELSE /\ rs.store = p.store /\ rs.err = p.err
                   /\ rs.store.kind \notin {"Dual", "ResilientS3"}
                   /\ rs.err = Nil
                        => rs.store.kind = IF rs.config.provider = "" THEN "Local"
                                           ELSE rs.config.provider

C20_Witness ==
    /\ ResolveDone /\ rs.entry = "GetSnapstore"
    /\ rs.config.secondary # NoConfig
    /\ getSingleSnapstore(rs.config).err = Nil
    /\ rs.config.secondary.provider = "S3" /\ rs.config.secondary.container = "bucket"
    /\ rs.config.secondary.tempDir = "exists" /\ rs.config.secondary.ctor = ErrTimeout
    /\ rs.store = NoStore /\ rs.err # Nil

\* what the two constructions of a resilient resolution return
PrimaryBuilt == createResilientSingleSnapstore(rs.config)
SecondaryBuilt == createResilientSingleSnapstoreWithIdentifier(rs.config.secondary, "secondary")

ResilientDualDone ==
    /\ ResolveDone /\ rs.entry = "GetResilientSnapstore"
    /\ rs.config.secondary # NoConfig

ConstructionTransient(err) ==
    \E sig \in { <<"no", "such", "host">>, <<"dial", "tcp:">>, <<"request", "send", "failed">>,
                 <<"connection", "refused">>, <<"connection", "timeout">>, <<"i/o", "timeout">>,
                 <<"RequestError:">>, <<"NoCredentialsErr:">> } :
        Contains(err.text, sig)

PipelineOn == pipe.coord # "none"

\* the coordinator takes a result off the result queue in this step
CoordinatorStep == Len(pipe'.resCh) < Len(pipe.resCh)

\* every chunk's upload succeeds before the chunk exhausts its retries
AllSucceed == \A c \in Chunks : pipe.fails[c] < maxRetryAttempts

FullSuccess == pipe.coord = "returned" /\ pipe.ret = NoResult /\ pipe.stopCh

\* C23: if every chunk's upload succeeds before the chunk exhausts its
\* retries, then under fair scheduling the coordinator eventually fires the
\* stop signal and returns no error; it returns no error only in the step
\* that receives the last of the NumChunks successful results, firing the
\* stop signal in that step, and the remaining-chunk counter is never negative.
C23_FullSuccess ==
    /\ [](PipelineOn => pipe.remainingChunks >= 0)
    /\ [](PipelineOn => (FullSuccess => pipe.remainingChunks = 0))
    /\ [][(PipelineOn /\ CoordinatorStep /\ Head(pipe.resCh).ok)
            => IF pipe.remainingChunks = 1
               THEN pipe'.stopCh /\ ~pipe.stopCh /\ pipe'.coord = "returned" /\ pipe'.ret = NoResult
               ELSE ~pipe'.stopCh /\ pipe'.coord = "range"]_vars
    /\ ((PipelineOn /\ AllSucceed) ~> FullSuccess)

C23_Witness ==
    /\ PipelineOn /\ FullSuccess
    /\ \E c \in Chunks : pipe.fails[c] = maxRetryAttempts - 1 /\ pipe.uploads[c] = maxRetryAttempts

\* C24: a failed result whose attempt counter equals maxRetryAttempts makes
\* the coordinator fire the stop signal and return that result; a failed result
\* with a smaller counter leaves the pipeline running; once it has returned,
\* the coordinator takes no further result and schedules no resubmission.
C24_FailFast ==
    [][PipelineOn
        => /\ (CoordinatorStep /\ ~Head(pipe.resCh).ok)
                => IF Head(pipe.resCh).attempt = maxRetryAttempts
                   THEN /\ pipe'.stopCh /\ pipe'.coord = "returned"
                        /\ pipe'.ret = Head(pipe.resCh)
                   ELSE /\ pipe'.stopCh = pipe.stopCh /\ pipe'.coord = "range"
                        /\ pipe'.ret = NoResult
           /\ pipe.coord = "returned"
                => /\ ~CoordinatorStep
                   /\ \A c \in Chunks :
                        pipe'.timers[c].pc = "armed" => pipe.timers[c].pc = "armed"]_vars

C24_Witness ==
    /\ PipelineOn /\ pipe.coord = "returned"
    /\ ~pipe.ret.ok /\ pipe.ret.attempt = maxRetryAttempts
    /\ pipe.resCh # <<>>

\* the chunks that are in the input queue or in a worker's hands
Submitted ==
    { pipe.chunkUploadCh[i] : i \in 1..Len(pipe.chunkUploadCh) }
        \cup { pipe.workers[w].chunk : w \in { v \in Workers : pipe.workers[v].pc = "upload" } }

C26_NoEnqueueAfterStop ==
    [][(PipelineOn /\ pipe.stopCh)
        => Len(pipe'.chunkUploadCh) <= Len(pipe.chunkUploadCh)]_vars

C29_StopOneShot ==
    /\ [](PipelineOn
            => /\ pipe.closes <= 1
               /\ pipe.stopCh <=> pipe.closes = 1
               /\ pipe.stopCh <=> pipe.coord = "returned")
    /\ [][PipelineOn
            => /\ (pipe'.closes # pipe.closes)
                    => /\ CoordinatorStep
                       /\ \/ Head(pipe.resCh).ok /\ pipe.remainingChunks = 1
                          \/ ~Head(pipe.resCh).ok /\ Head(pipe.resCh).attempt = maxRetryAttempts
               /\ pipe.stopCh
                    => /\ pipe'.resCh = pipe.resCh \/ Len(pipe'.resCh) > Len(pipe.resCh)
                       /\ pipe'.remainingChunks = pipe.remainingChunks
                       /\ pipe'.ret = pipe.ret /\ pipe'.closes = pipe.closes
                       /\ \A c \in Chunks :
                            pipe'.timers[c].pc = "armed" => pipe.timers[c].pc = "armed"]_vars

C29_Witness ==
    /\ PipelineOn /\ pipe.closes = 1 /\ ~pipe.ret.ok
    /\ \E i \in 1..Len(pipe.resCh) :
         ~pipe.resCh[i].ok /\ pipe.resCh[i].attempt = maxRetryAttempts

\* ---------------------------------------------------- classifier claims
ClassifyDone == cl.pc = "done"

\* the timeout / temporary indicators of an error's net.Error capability
NetIndicator(err) == err.net \in {"timeout", "temporary"}

\* C27 as stated: two errors with the same text get the same class from each
\* classifier, whatever their concrete types.
C27_Original ==
    (ClassifyDone /\ cl.e1.text = cl.e2.text) => cl.r1 = cl.r2

\* C27: two errors with the same text and the same timeout / temporary
\* indicators get the same class from each classifier; the construction-time
\* classifier gives two errors with the same text the same class whatever
\* their types; a classification changes no state of the breaker.
C27_ClassifierDeterminism ==
    /\ [](ClassifyDone
            => /\ (cl.e1.text = cl.e2.text /\ NetIndicator(cl.e1) = NetIndicator(cl.e2))
                    => cl.r1 = cl.r2
               /\ (cl.classifier = "construction" /\ cl.e1.text = cl.e2.text)
                    => cl.r1 = cl.r2)
    /\ [][cl' # cl => UNCHANGED <<primaryFailed, primaryFailCount>>]_vars

C27_Witness ==
    /\ ClassifyDone /\ cl.classifier = "DualSnapStore"
    /\ cl.e1.text = <<"access", "denied">> /\ cl.e2.text = cl.e1.text
    /\ cl.e1.net = "timeout" /\ cl.e2.net = "temporary"
    /\ cl.r1 /\ cl.r2

\* ---------------------------------------------------------- lock claims
\* the statements that read, and that write, ds.primaryFailed or ds.primaryFailCount
ReadsBreaker(c) == lk.pc[c] \in {"read", "warnf"}
WritesBreaker(c) == lk.pc[c] = "write"

\* C30: a call about to read the disabled flag or the failure counter holds
\* the lock, shared or exclusive; a call about to write them holds it
\* exclusively; no call is about to read the counter while another is about
\* to write it.
C30_BreakerUnderLock ==
    lk.on
        => \A c \in Callers :
              /\ ReadsBreaker(c) => (c \in lk.readers \/ lk.writer = c)
              /\ WritesBreaker(c) => (lk.writer = c /\ lk.readers = {})
              /\ \A d \in Callers \ {c} : ~(ReadsBreaker(c) /\ WritesBreaker(d))

\* --------------------------------------------------------------------- C31
\* both endpoints of the Dual Store are ResilientS3SnapStore wrappers
BothWrapped ==
    /\ fan.store.kind = "Dual"
    /\ fan.store.primary.kind = "ResilientS3"
    /\ fan.store.secondary.kind = "ResilientS3"

\* C31: when the Dual Store built by the resilient resolver has two wrapped
\* backends and the List calls of both backends fail with Transient errors,
\* the Dual Store's List returns an error, not a list.
C31_ComposedListFails ==
    ( /\ fan.op = "List" /\ fan.pc = "done"
      /\ BothWrapped
      /\ IsTransientError(fan.pBack.err)
      /\ IsTransientError(fan.sBack.err) )
    => fan.ret # Nil

\* --------------------------------------------------------------------- C32
\* a step changes the breaker; a step is taken by the call of caller c
BreakerChanged ==
    primaryFailed' # primaryFailed \/ primaryFailCount' # primaryFailCount

CallStep(c) == calls'[c] # calls[c]

\* C32: no step of a List or Delete call changes the disabled flag or the
\* failure counter, whatever the endpoints answer; every step that changes
\* them is a step of a Save or Fetch call; a Save whose content stream cannot
\* be read changes neither and has invoked no endpoint.
C32_ListDeleteLeaveBreaker ==
    [][ /\ \A c \in Callers :
             ( /\ CallStep(c)
               /\ \/ calls[c].op \in {"List", "Delete"}
                  \/ calls'[c].op \in {"List", "Delete"} )
             => ~BreakerChanged
        /\ BreakerChanged =>
             \E c \in Callers : CallStep(c) /\ calls[c].op \in {"Save", "Fetch"}
        /\ \A c \in Callers :
             (CallStep(c) /\ calls'[c].ret = ReadErr)
             => ( /\ ~BreakerChanged
                  /\ calls'[c].op = "Save"
                  /\ calls'[c].pInv = 0 /\ calls'[c].sInv = 0 )
      ]_vars

\* a List whose primary failed Transient has returned and a Save has failed
\* on its content stream, with failures counted by the breaker
C32_Witness ==
    \E c1, c2 \in Callers :
        /\ calls[c1].op = "List" /\ calls[c1].pc = "done"
        /\ isTransientError(calls[c1].pWould)
        /\ calls[c2].op = "Save" /\ calls[c2].pc = "done"
        /\ calls[c2].ret = ReadErr
        /\ primaryFailed /\ primaryFailCount > 0

====
